---- MODULE Spec2Model ----
(***************************************************************************)
(* Model of the watchlist of rmw/movie-app: the WatchlistProvider (React   *)
(* context holding `items`), the localStorage utilities it persists with,  *)
(* and the Watchlist page's Clear All handler.                             *)
(*                                                                         *)
(* React's useState/useEffect are modelled by what they do to this code:   *)
(* setItems(updater) appends the updater to a queue, a re-render applies   *)
(* the queued updaters in order to the committed `items`, and the effect   *)
(* with dependency [items] is scheduled by a commit that changed the       *)
(* identity of `items`.                                                    *)
(***************************************************************************)
EXTENDS Integers, Sequences, FiniteSets, TLC

VARIABLES
  items,      \* the committed `items` state of the provider (what every closure of the last render reads)
  queue,      \* setItems calls not yet applied by a re-render
  effects,    \* passive effects scheduled by the last commit and not yet run
  storage,    \* the localStorage entry under WATCHLIST_KEY
  now,        \* the value Date.now() returns
  filterBy,   \* the Watchlist page's filterBy state ('all' from useState; Spec has no action that selects another)
  caseFirst,  \* the host's default collation: which case localeCompare puts first
  loads,      \* history: the number of loadWatchlist() calls of this provider lifetime
  stamp,      \* history: per id, the addedAt assigned when the id last entered the collection
  last        \* history: the operation that produced this state

vars == <<items, queue, effects, storage, now, filterBy, caseFirst, loads, stamp, last>>

\* ---------------------------------------------------------------- bounds
MaxTime == 1
MaxQueue == 2

\* ---------------------------------------------------------------- values
WATCHLIST_KEY == "tmovies_watchlist"

Undefined == "<undefined>"
None == -1

\* content descriptors handed to the provider by the lookup components, each
\* with the category its button passes
Candidates ==
  { [movie |-> [id |-> "550", original_title |-> "Fight Club", name |-> Undefined,
                poster_path |-> "/fc.jpg"], category |-> "movie"],
    [movie |-> [id |-> "1399", original_title |-> Undefined, name |-> "Breaking Bad",
                poster_path |-> "/bb.jpg"], category |-> "tv"] }

\* a descriptor an earlier lifetime of the provider was given
EarlierCandidate ==
  [movie |-> [id |-> "603", original_title |-> "", name |-> "apple",
              poster_path |-> Undefined], category |-> "movie"]

Ids == { c.movie.id : c \in Candidates \cup {EarlierCandidate} }

NoMovie == [id |-> Undefined, original_title |-> Undefined, name |-> Undefined,
            poster_path |-> Undefined]

\* ---------------------------------------------------------------- helpers
RECURSIVE SelectItems(_, _)
\* Array.prototype.filter with a predicate given as the set of accepted items
SelectItems(s, keep) ==
  IF s = <<>> THEN <<>>
  ELSE IF Head(s) \in keep THEN <<Head(s)>> \o SelectItems(Tail(s), keep)
       ELSE SelectItems(Tail(s), keep)

ItemsOf(s) == { s[i] : i \in 1..Len(s) }
IdsOf(s) == { s[i].id : i \in 1..Len(s) }

\* a || b
OrElse(a, b) == IF a \in {Undefined, ""} THEN b ELSE a

Times == 0..MaxTime

\* ---------------------------------------------------------------- JSON
\* A JSON text is modelled by its structure: kind "array" with one element per
\* item, each element the sequence of its "key": token members in the order
\* JSON.stringify emits them; kind "garbage" is a text JSON.parse rejects.
Member(k, quoted, t) == [key |-> k, q |-> quoted, txt |-> t]

StringMember(k, v) == IF v = Undefined THEN <<>> ELSE <<Member(k, TRUE, v)>>

NumberMember(k, n) == <<Member(k, FALSE, ToString(n))>>

\* StringifyItem that leaves the title out
StringifyItem_NoTitle(it) ==
  StringMember("id", it.id) \o StringMember("type", it.type)
    \o StringMember("poster_path", it.poster_path) \o NumberMember("addedAt", it.addedAt)

\* JSON.stringify of one WatchlistItem: own properties in creation order,
\* properties whose value is undefined are left out
StringifyItem(it) ==
  StringMember("id", it.id) \o StringMember("type", it.type)
    \o StringMember("title", it.title) \o StringMember("poster_path", it.poster_path)
    \o NumberMember("addedAt", it.addedAt)

JSONstringify(arr) ==
  [kind |-> "array", elems |-> [i \in 1..Len(arr) |-> StringifyItem(arr[i])]]

GarbageText == [kind |-> "garbage", elems |-> <<>>]

\* property read on a parsed object: undefined when the member is missing
StringProp(obj, k) ==
  IF \E i \in 1..Len(obj) : obj[i].key = k
  THEN (CHOOSE m \in ItemsOf(obj) : m.key = k).txt
  ELSE Undefined

NumberProp(obj, k) ==
  LET t == StringProp(obj, k)
  IN IF \E n \in Times : ToString(n) = t THEN CHOOSE n \in Times : ToString(n) = t ELSE None

ParseItem(obj) ==
  [id |-> StringProp(obj, "id"), type |-> StringProp(obj, "type"),
   title |-> StringProp(obj, "title"), poster_path |-> StringProp(obj, "poster_path"),
   addedAt |-> NumberProp(obj, "addedAt")]

\* JSON.parse: throws on a text that is not JSON
JSONparse(text) ==
  IF text.kind = "array"
  THEN [threw |-> FALSE, value |-> [i \in 1..Len(text.elems) |-> ParseItem(text.elems[i])]]
  ELSE [threw |-> TRUE, value |-> <<>>]

\* ---------------------------------------------------------------- storage
\* the entry under WATCHLIST_KEY: absent (getItem returns null) or a text
NoEntry == [present |-> FALSE, text |-> GarbageText]

Entry(text) == [present |-> TRUE, text |-> text]

\* the empty string: a text getItem can return and `!stored` treats as absent
EmptyText == [kind |-> "empty", elems |-> <<>>]

\* the outcome of a call: the exception propagated, or the value returned
Threw == [threw |-> TRUE, value |-> <<>>]

Returned(v) == [threw |-> FALSE, value |-> v]

\* the try block of loadWatchlist; `fails` is a backend whose getItem throws
loadWatchlistTry(st, fails) ==
  IF fails THEN Threw
  ELSE IF ~st.present \/ st.text = EmptyText THEN Returned(<<>>)
  ELSE JSONparse(st.text)

\* loadWatchlistCall without the catch block
loadWatchlistCall_NoCatch(st, fails) == loadWatchlistTry(st, fails)

\* loadWatchlist(): catch { return []; }
loadWatchlistCall(st, fails) ==
  LET r == loadWatchlistTry(st, fails)
  IN IF r.threw THEN Returned(<<>>) ELSE r

loadWatchlist(st) == loadWatchlistCall(st, FALSE).value

\* localStorage.setItem; `fails` is a backend whose setItem throws (quota,
\* access denied) and writes nothing
setItem(st, text, fails) ==
  IF fails THEN [threw |-> TRUE, st |-> st] ELSE [threw |-> FALSE, st |-> Entry(text)]

\* saveWatchlistCall that keeps the stored items the collection does not hold
saveWatchlistCall_Merge(st, arr, fails) ==
  LET stored == IF st.present /\ ~JSONparse(st.text).threw
                THEN JSONparse(st.text).value ELSE <<>>
      kept == SelectItems(stored, { it \in ItemsOf(stored) : it.id \notin IdsOf(arr) })
      r == setItem(st, JSONstringify(arr \o kept), fails)
  IN [threw |-> FALSE, st |-> r.st]

\* saveWatchlistCall without the catch block
saveWatchlistCall_NoCatch(st, arr, fails) == setItem(st, JSONstringify(arr), fails)

\* saveWatchlist(items): catch (error) { console.error(...) }
saveWatchlistCall(st, arr, fails) ==
  LET r == setItem(st, JSONstringify(arr), fails)
  IN [threw |-> FALSE, st |-> r.st]

saveWatchlist(st, arr) == saveWatchlistCall(st, arr, FALSE).st

\* localStorage.removeItem; `fails` is a backend whose removeItem throws
removeItem(st, fails) ==
  IF fails THEN [threw |-> TRUE, st |-> st] ELSE [threw |-> FALSE, st |-> NoEntry]

\* clearWatchlistStorageCall that stores an empty list instead of removing
\* the entry
clearWatchlistStorageCall_WritesEmpty(st, fails) ==
  [threw |-> FALSE, st |-> setItem(st, JSONstringify(<<>>), fails).st]

\* clearWatchlistStorage(): catch { console.error(...) }
clearWatchlistStorageCall(st, fails) ==
  LET r == removeItem(st, fails)
  IN [threw |-> FALSE, st |-> r.st]

clearWatchlistStorage(st) == clearWatchlistStorageCall(st, FALSE).st

\* ---------------------------------------------------------------- provider
\* NewItem that prefers the name over the original title
NewItem_NameFirst(movie, type, t) ==
  [id |-> movie.id, type |-> type, title |-> OrElse(movie.name, movie.original_title),
   poster_path |-> movie.poster_path, addedAt |-> t]

NewItem(movie, type, t) ==
  [id |-> movie.id, type |-> type, title |-> OrElse(movie.original_title, movie.name),
   poster_path |-> movie.poster_path, addedAt |-> t]

\* addUpdater that moves an id already present to the front with a new addedAt
addUpdater_Refresh(prev, movie, type, t) ==
  <<NewItem(movie, type, t)>> \o SelectItems(prev, { it \in ItemsOf(prev) : it.id # movie.id })

\* addUpdater that puts the new item last
addUpdater_Append(prev, movie, type, t) ==
  IF \E i \in 1..Len(prev) : prev[i].id = movie.id
  THEN prev
  ELSE prev \o <<NewItem(movie, type, t)>>

\* addUpdater without the membership check
addUpdater_NoCheck(prev, movie, type, t) == <<NewItem(movie, type, t)>> \o prev

\* the updater addToWatchlist passes to setItems, run at clock value t
addUpdater(prev, movie, type, t) ==
  IF \E i \in 1..Len(prev) : prev[i].id = movie.id
  THEN prev
  ELSE <<NewItem(movie, type, t)>> \o prev

\* removeUpdater that drops the first item whatever the id
removeUpdater_First(prev, id) == IF prev = <<>> THEN prev ELSE Tail(prev)

\* removeUpdater that empties the collection
removeUpdater_Clears(prev, id) == <<>>

\* removeUpdater with a predicate that keeps every item
removeUpdater_KeepsAll(prev, id) == prev

\* the updater removeFromWatchlist passes to setItems
removeUpdater(prev, id) == SelectItems(prev, { it \in ItemsOf(prev) : it.id # id })

isInWatchlist(id) == \E i \in 1..Len(items) : items[i].id = id

getCount == Len(items)

\* getFiltered whose predicate keeps the items of the other type
getFiltered_OtherType(filter) ==
  IF filter = "all" THEN items
  ELSE SelectItems(items, { it \in ItemsOf(items) : it.type # filter })

getFiltered(filter) ==
  IF filter = "all" THEN items
  ELSE SelectItems(items, { it \in ItemsOf(items) : it.type = filter })

\* ---------------------------------------------------------------- sorting
\* the letters of the titles of the model: per title the collation letters
\* (a = 1 .. z = 26, the space 0) and, per letter, 1 for upper case
Spelling(t) ==
  CASE t = "apple" -> [base |-> <<1, 16, 16, 12, 5>>, caps |-> <<0, 0, 0, 0, 0>>]
    [] t = "Apple" -> [base |-> <<1, 16, 16, 12, 5>>, caps |-> <<1, 0, 0, 0, 0>>]
    [] t = "Fight Club" -> [base |-> <<6, 9, 7, 8, 20, 0, 3, 12, 21, 2>>,
                            caps |-> <<1, 0, 0, 0, 0, 0, 1, 0, 0, 0>>]
    [] t = "Breaking Bad" -> [base |-> <<2, 18, 5, 1, 11, 9, 14, 7, 0, 2, 1, 4>>,
                              caps |-> <<1, 0, 0, 0, 0, 0, 0, 0, 0, 1, 0, 0>>]
    [] t = Undefined -> [base |-> <<21, 14, 4, 5, 6, 9, 14, 5, 4>>,
                         caps |-> <<0, 0, 0, 0, 0, 0, 0, 0, 0>>]
    [] OTHER -> [base |-> <<>>, caps |-> <<>>]

RECURSIVE CompareKeys(_, _)
\* lexicographic comparison of two key sequences: -1, 0 or 1
CompareKeys(x, y) ==
  IF x = <<>> /\ y = <<>> THEN 0
  ELSE IF x = <<>> THEN -1
  ELSE IF y = <<>> THEN 1
  ELSE IF Head(x) < Head(y) THEN -1
  ELSE IF Head(x) > Head(y) THEN 1
  ELSE CompareKeys(Tail(x), Tail(y))

\* the case orders of the collations a host can have as its default (most
\* put lower case first; some, such as Danish, upper case)
CaseFirsts == {"lower", "upper"}

\* localeCompare that ignores case altogether
localeCompare_IgnoreCase(a, b) == CompareKeys(Spelling(a).base, Spelling(b).base)

\* String.prototype.localeCompare with the host's default collation: the
\* letters decide first; texts with the same letters are ordered by case; an
\* undefined argument is compared as the text "undefined"
localeCompare(a, b) ==
  LET letters == CompareKeys(Spelling(a).base, Spelling(b).base)
      cases == CompareKeys(Spelling(a).caps, Spelling(b).caps)
  IN IF letters # 0 THEN letters
     ELSE IF caseFirst = "lower" THEN cases ELSE 0 - cases

SortBys == {"date-new", "date-old", "title"}

\* Comparator whose 'date-new' puts the older item first
Comparator_OldFirst(sortBy, a, b) ==
  CASE sortBy = "date-new" -> a.addedAt - b.addedAt
    [] sortBy = "date-old" -> a.addedAt - b.addedAt
    [] OTHER -> localeCompare(a.title, b.title)

\* the comparators of getSorted
Comparator(sortBy, a, b) ==
  CASE sortBy = "date-new" -> b.addedAt - a.addedAt
    [] sortBy = "date-old" -> a.addedAt - b.addedAt
    [] OTHER -> localeCompare(a.title, b.title)

RECURSIVE Insert(_, _, _)
\* one step of the stable sort: x goes behind every element that does not
\* compare greater than it
Insert(sorted, x, sortBy) ==
  IF sorted = <<>> THEN <<x>>
  ELSE IF Comparator(sortBy, Head(sorted), x) <= 0
       THEN <<Head(sorted)>> \o Insert(Tail(sorted), x, sortBy)
       ELSE <<x>> \o sorted

RECURSIVE ArraySort(_, _, _)
\* Array.prototype.sort(compareFn), which is stable: the elements of s
\* inserted in input order into the sorted prefix `acc`
ArraySort(s, acc, sortBy) ==
  IF s = <<>> THEN acc
  ELSE ArraySort(Tail(s), Insert(acc, Head(s), sortBy), sortBy)

\* whether getSorted throws: a.title.localeCompare throws a TypeError when the
\* receiver's title is undefined, and which element of a pair the engine
\* makes the receiver is its choice
SortThrows(s, sortBy) ==
  IF sortBy # "title" \/ Len(s) < 2 THEN {FALSE}
  ELSE IF \A i \in 1..Len(s) : s[i].title = Undefined THEN {TRUE}
  ELSE IF \E i \in 1..Len(s) : s[i].title = Undefined THEN BOOLEAN
  ELSE {FALSE}

\* getSortedCall whose sort takes the elements last to first, so that
\* elements comparing equal come out in reverse input order
getSortedCall_TiesReversed(itemsToSort, sortBy, throws) ==
  LET reversed == [i \in 1..Len(itemsToSort) |-> itemsToSort[Len(itemsToSort) + 1 - i]]
      sorted == IF sortBy \in SortBys THEN ArraySort(reversed, <<>>, sortBy) ELSE itemsToSort
  IN [threw |-> throws, value |-> IF throws THEN <<>> ELSE sorted, input |-> itemsToSort]

\* getSortedCall that sorts the array it was given
getSortedCall_InPlace(itemsToSort, sortBy, throws) ==
  LET sorted == IF sortBy \in SortBys THEN ArraySort(itemsToSort, <<>>, sortBy) ELSE itemsToSort
  IN [threw |-> throws, value |-> IF throws THEN <<>> ELSE sorted,
      input |-> IF throws THEN itemsToSort ELSE sorted]

\* getSorted(itemsToSort, sortBy): sorts a copy; `input` is what the array
\* passed in holds after the call
getSortedCall(itemsToSort, sortBy, throws) ==
  LET sorted == IF sortBy \in SortBys THEN ArraySort(itemsToSort, <<>>, sortBy) ELSE itemsToSort
  IN [threw |-> throws, value |-> IF throws THEN <<>> ELSE sorted, input |-> itemsToSort]

getSorted(itemsToSort, sortBy) == getSortedCall(itemsToSort, sortBy, FALSE).value

\* queued setItems calls
\* `called` is the clock value at the call (history; the updater does not read it)
AddUpdate(c, t) == [op |-> "add", movie |-> c.movie, type |-> c.category, id |-> c.movie.id,
                    called |-> t, saved |-> <<>>]

RemoveUpdate(id) == [op |-> "remove", movie |-> NoMovie, type |-> Undefined, id |-> id,
                     called |-> None, saved |-> <<>>]

SetUpdate(saved) == [op |-> "set", movie |-> NoMovie, type |-> Undefined, id |-> Undefined,
                     called |-> None, saved |-> saved]

NoStamp == [id \in Ids |-> None]

AddedAtOf(s, id) == (CHOOSE it \in ItemsOf(s) : it.id = id).addedAt

\* ApplyUpdate whose updaters start from the committed `items` of the render
\* that issued them, as setItems([newItem, ...items]) would
ApplyUpdate_Stale(u, acc, carried, t) ==
  CASE u.op = "add" ->
         [items |-> addUpdater(items, u.movie, u.type, t), changed |-> TRUE,
          did |-> acc.did \cup {"insert"}, stamp |-> acc.stamp]
    [] u.op = "remove" ->
         [items |-> removeUpdater(items, u.id), changed |-> TRUE,
          did |-> acc.did \cup {"remove"}, stamp |-> acc.stamp]
    [] OTHER ->
         [items |-> u.saved, changed |-> TRUE,
          did |-> acc.did \cup {"hydrate"}, stamp |-> acc.stamp]

\* one queued update applied to the state a re-render is computing.  `changed`
\* tells whether the array is a new one (an updater that returns prev keeps
\* the array); `did` and `stamp` are history.
ApplyUpdate(u, acc, carried, t) ==
  CASE u.op = "add" ->
         LET next == addUpdater(acc.items, u.movie, u.type, t)
             present == u.id \in IdsOf(acc.items)
         IN [items |-> next,
             changed |-> acc.changed \/ next # acc.items,
             did |-> acc.did \cup {IF present THEN "readd" ELSE "insert"},
             stamp |-> IF present THEN acc.stamp ELSE [acc.stamp EXCEPT ![u.id] = t]]
    [] u.op = "remove" ->
         [items |-> removeUpdater(acc.items, u.id),
          changed |-> TRUE,
          did |-> acc.did \cup {IF u.id \in IdsOf(acc.items) THEN "remove" ELSE "removeAbsent"},
          stamp |-> [id \in Ids |-> IF id = u.id THEN None ELSE acc.stamp[id]]]
    [] OTHER ->
         [items |-> u.saved,
          changed |-> TRUE,
          did |-> acc.did \cup {IF \E id \in IdsOf(u.saved) \cap Ids : carried[id] # None
                                THEN "rehydrate" ELSE "hydrate"},
          stamp |-> [id \in Ids |->
                       IF id \notin IdsOf(u.saved) THEN None
                       ELSE IF carried[id] # None THEN carried[id]
                       ELSE AddedAtOf(u.saved, id)]]

RECURSIVE ProcessQueue(_, _, _, _)
\* the re-render: the queued updates applied in the order they were issued
ProcessQueue(q, acc, carried, t) ==
  IF q = <<>> THEN acc
  ELSE ProcessQueue(Tail(q), ApplyUpdate(Head(q), acc, carried, t), carried, t)

\* what a re-render starts from: the committed collection, not yet replaced
RenderStart == [items |-> items, changed |-> FALSE, did |-> {}, stamp |-> stamp]

Rendered == ProcessQueue(queue, RenderStart, stamp, now)

\* ---------------------------------------------------------------- initial states
\* snapshots an earlier lifetime of the provider can have left in storage
StoredSnapshots ==
  { << NewItem(EarlierCandidate.movie, EarlierCandidate.category, 0),
       NewItem([id |-> "550", original_title |-> "Fight Club", name |-> Undefined,
                poster_path |-> "/fc.jpg"], "movie", 0) >> }

InitialStorage == {NoEntry, Entry(GarbageText)} \cup { Entry(JSONstringify(s)) : s \in StoredSnapshots }

MountEffects == <<"load", "save">>

\* history record: the operation, its argument, and for a re-render what its
\* updates did ("insert", "readd", "remove", "removeAbsent", "hydrate", and
\* "rehydrate" when the loaded snapshot holds an item kept across a reload)
Did(op, id, did) == [op |-> op, id |-> id, did |-> did]

Init ==
  /\ items = <<>>
  /\ queue = <<>>
  /\ effects = MountEffects
  /\ storage \in InitialStorage
  /\ now = 0
  /\ filterBy = "all"
  /\ caseFirst = "lower"
  /\ loads = 0
  /\ stamp = NoStamp
  /\ last = Did("mount", Undefined, {})

\* ---------------------------------------------------------------- actions
\* an exception that left the operation named by last.op
Thrown == "<threw>"

\* useEffect(() => { const saved = loadWatchlist(); setItems(saved); }, [])
LoadEffectOn(fails) ==
  /\ effects # <<>> /\ Head(effects) = "load"
  /\ LET r == loadWatchlistCall(storage, fails)
     IN /\ queue' = IF r.threw THEN queue ELSE Append(queue, SetUpdate(r.value))
        /\ last' = Did("loadEffect", IF r.threw THEN Thrown ELSE Undefined, {})
  /\ effects' = Tail(effects)
  /\ loads' = loads + 1
  /\ UNCHANGED <<items, storage, now, filterBy, caseFirst, stamp>>

\* the load effect over a backend that answers
LoadEffect == LoadEffectOn(FALSE)

\* SaveEffectOn that leaves the store alone while the collection is empty
SaveEffectOn_SkipsEmpty(fails) ==
  /\ effects # <<>> /\ Head(effects) = "save"
  /\ LET r == IF items = <<>> THEN [threw |-> FALSE, st |-> storage]
              ELSE saveWatchlistCall(storage, items, fails)
     IN /\ storage' = r.st
        /\ last' = Did("saveEffect",
                       IF r.threw THEN Thrown
                       ELSE IF last.op = "render" THEN last.id ELSE Undefined,
                       IF fails THEN {"failed"} ELSE {})
  /\ effects' = Tail(effects)
  /\ UNCHANGED <<items, queue, now, filterBy, caseFirst, loads, stamp>>

\* useEffect(() => { saveWatchlist(items); }, [items])
SaveEffectOn(fails) ==
  /\ effects # <<>> /\ Head(effects) = "save"
  /\ LET r == saveWatchlistCall(storage, items, fails)
     IN /\ storage' = r.st
        /\ last' = Did("saveEffect",
                       IF r.threw THEN Thrown
                       ELSE IF last.op = "render" THEN last.id ELSE Undefined,
                       IF fails THEN {"failed"} ELSE {})
  /\ effects' = Tail(effects)
  /\ UNCHANGED <<items, queue, now, filterBy, caseFirst, loads, stamp>>

\* the save effect over a backend that answers
SaveEffect == SaveEffectOn(FALSE)

\* addToWatchlist(movie, type): setItems(updater).  The updater, and the
\* Date.now() in it, runs when React processes the queue.  (When nothing is
\* pending React may run it during the call: the outcome is that of a
\* re-render taken before the clock moves.)
addToWatchlist(c) ==
  /\ Len(queue) < MaxQueue
  /\ queue' = Append(queue, AddUpdate(c, now))
  /\ last' = Did("addToWatchlist", c.movie.id, {})
  /\ UNCHANGED <<items, effects, storage, now, filterBy, caseFirst, loads, stamp>>

\* removeFromWatchlist(id): setItems(prev => prev.filter(...))
removeFromWatchlist(id) ==
  /\ Len(queue) < MaxQueue
  /\ queue' = Append(queue, RemoveUpdate(id))
  /\ last' = Did("removeFromWatchlist", id, {})
  /\ UNCHANGED <<items, effects, storage, now, filterBy, caseFirst, loads, stamp>>

\* Watchlist.handleClearAll: one removeFromWatchlist per item of the rendered
\* `items`, when the user confirms; the button is rendered while the filtered
\* view is not empty
handleClearAll(confirmed) ==
  /\ getFiltered(filterBy) # <<>>
  /\ Len(queue) + Len(items) <= MaxQueue
  /\ queue' = IF confirmed
              THEN queue \o [i \in 1..Len(items) |-> RemoveUpdate(items[i].id)]
              ELSE queue
  /\ last' = Did("handleClearAll", IF confirmed THEN "yes" ELSE "no", {})
  /\ UNCHANGED <<items, effects, storage, now, filterBy, caseFirst, loads, stamp>>

\* Render with a save effect that does not depend on `items`
Render_NoSave ==
  /\ queue # <<>>
  /\ effects = <<>>
  /\ items' = Rendered.items
  /\ stamp' = Rendered.stamp
  /\ queue' = <<>>
  /\ effects' = <<>>
  /\ last' = Did("render", Undefined, Rendered.did)
  /\ UNCHANGED <<storage, now, filterBy, caseFirst, loads>>

\* Render whose commit runs the load effect again, as a load effect that
\* depends on `items` would
Render_Rehydrates ==
  /\ queue # <<>>
  /\ effects = <<>>
  /\ items' = Rendered.items
  /\ stamp' = Rendered.stamp
  /\ queue' = <<>>
  /\ effects' = IF Rendered.changed THEN <<"load", "save">> ELSE <<>>
  /\ last' = Did("render", Undefined, Rendered.did)
  /\ UNCHANGED <<storage, now, filterBy, caseFirst, loads>>

\* a re-render of the provider: pending passive effects are flushed first, the
\* queued updates are applied, and a commit with a new `items` array schedules
\* the save effect
Render ==
  /\ queue # <<>>
  /\ effects = <<>>
  /\ items' = Rendered.items
  /\ stamp' = Rendered.stamp
  /\ queue' = <<>>
  /\ effects' = IF Rendered.changed THEN <<"save">> ELSE <<>>
  /\ last' = Did("render",
                IF last.op = "handleClearAll" /\ last.id = "yes" THEN "clearAll" ELSE Undefined,
                Rendered.did)
  /\ UNCHANGED <<storage, now, filterBy, caseFirst, loads>>

\* Date.now() advances
Tick ==
  /\ now < MaxTime
  /\ now' = now + 1
  /\ UNCHANGED <<items, queue, effects, storage, filterBy, caseFirst, loads, stamp, last>>

\* the page is reloaded: a new provider lifetime over the same storage.  What
\* was queued or committed but not yet saved is lost, so the history of the
\* items is kept only when no effect was pending.
Reload ==
  /\ items' = <<>>
  /\ queue' = <<>>
  /\ effects' = MountEffects
  /\ filterBy' = "all"
  /\ loads' = 0
  /\ stamp' = IF effects = <<>> THEN stamp ELSE NoStamp
  /\ last' = Did("mount", Undefined, {})
  /\ UNCHANGED <<storage, now, caseFirst>>

Next ==
  \/ LoadEffect
  \/ SaveEffect
  \/ \E c \in Candidates : addToWatchlist(c)
  \/ \E id \in Ids : removeFromWatchlist(id)
  \/ \E confirmed \in BOOLEAN : handleClearAll(confirmed)
  \/ Render
  \/ Tick
  \/ Reload

Spec == Init /\ [][Next]_vars

Quiescent == queue = <<>> /\ effects = <<>>

TypeOK ==
  /\ now \in Times
  /\ Len(queue) <= MaxQueue + 1
  /\ \A i \in 1..Len(items) : items[i].id \in Ids /\ items[i].addedAt \in Times

\* ---------------------------------------------------------------- reads
Filters == {"all", "movie", "tv"}

ReadOps == {"isInWatchlist", "getCount", "getFiltered", "getSorted"}

\* a consumer calls isInWatchlist(id) of the context value of the last render
IsInWatchlistCall(id) ==
  /\ last' = Did("isInWatchlist", id, Returned(isInWatchlist(id)))
  /\ UNCHANGED <<items, queue, effects, storage, now, filterBy, caseFirst, loads, stamp>>

GetCountCall ==
  /\ last' = Did("getCount", Undefined, Returned(getCount))
  /\ UNCHANGED <<items, queue, effects, storage, now, filterBy, caseFirst, loads, stamp>>

GetFilteredCall(filter) ==
  /\ last' = Did("getFiltered", filter, Returned(getFiltered(filter)))
  /\ UNCHANGED <<items, queue, effects, storage, now, filterBy, caseFirst, loads, stamp>>

\* the array a consumer hands to getSorted: getFiltered(filter), as it is
\* (pre = "none") or after an earlier getSorted(..., pre)
SortInput(filter, pre) ==
  IF pre = "none" THEN getFiltered(filter) ELSE getSorted(getFiltered(filter), pre)

\* getSorted(itemsToSort, sortBy).  getFiltered('all') returns the `items`
\* array itself, so whatever the call does to its argument it then does to
\* the provider's state.
GetSortedCall(filter, pre, sortBy) ==
  /\ pre # "none" => SortThrows(getFiltered(filter), pre) = {FALSE}
  /\ \E throws \in SortThrows(SortInput(filter, pre), sortBy) :
       LET r == getSortedCall(SortInput(filter, pre), sortBy, throws)
       IN /\ items' = IF filter = "all" /\ pre = "none" THEN r.input ELSE items
          /\ last' = Did("getSorted", sortBy,
                         [threw |-> r.threw, value |-> r.value,
                          given |-> SortInput(filter, pre), input |-> r.input])
  /\ UNCHANGED <<queue, effects, storage, now, filterBy, caseFirst, loads, stamp>>

\* ---------------------------------------------------------------- the read operations alone
\* bound on the length of the collections the reads are applied to
MaxItems == 3

QueryPool ==
  { [id |-> "603", type |-> "movie", title |-> "apple", poster_path |-> Undefined, addedAt |-> 0],
    [id |-> "604", type |-> "tv", title |-> "Apple", poster_path |-> "/a.jpg", addedAt |-> 0],
    [id |-> "605", type |-> "tv", title |-> "apple", poster_path |-> "/b.jpg", addedAt |-> MaxTime],
    [id |-> "550", type |-> "movie", title |-> "Fight Club", poster_path |-> "/fc.jpg",
     addedAt |-> MaxTime],
    [id |-> "1399", type |-> "tv", title |-> "Breaking Bad", poster_path |-> "/bb.jpg",
     addedAt |-> 0] }

QueryIds == { it.id : it \in QueryPool }

\* collections the provider can hold: ids distinct, a later addition in front
QueryInputs ==
  { s \in UNION { [1..n -> QueryPool] : n \in 0..MaxItems } :
      /\ \A i, j \in 1..Len(s) : i # j => s[i].id # s[j].id
      /\ \A i, j \in 1..Len(s) : i < j => s[i].addedAt >= s[j].addedAt }

InitQuery ==
  /\ items \in QueryInputs
  /\ queue = <<>>
  /\ effects = <<>>
  /\ storage \in {saveWatchlist(NoEntry, items), NoEntry}
  /\ now = MaxTime
  /\ filterBy = "all"
  /\ caseFirst \in CaseFirsts
  /\ loads = 1
  /\ stamp = NoStamp
  /\ last = Did("saveEffect", Undefined, {})

NextQuery ==
  \/ \E id \in QueryIds : IsInWatchlistCall(id)
  \/ GetCountCall
  \/ \E filter \in Filters : GetFilteredCall(filter)
  \/ \E filter \in Filters, pre \in SortBys \cup {"none"}, sortBy \in SortBys :
       GetSortedCall(filter, pre, sortBy)

SpecQuery == InitQuery /\ [][NextQuery]_vars

\* ---------------------------------------------------------------- the provider over a damaged store
\* the text [{},{}]
ShapelessText == [kind |-> "array", elems |-> << <<>>, <<>> >>]

\* the text [{"id":"550"},{"id":"603","type":"movie"}]
PartialText ==
  [kind |-> "array",
   elems |-> << <<Member("id", TRUE, "550")>>,
                <<Member("id", TRUE, "603"), Member("type", TRUE, "movie")>> >>]

StorageConditions ==
  InitialStorage \cup {Entry(EmptyText), Entry(ShapelessText), Entry(PartialText)}

InitStore ==
  /\ items = <<>>
  /\ queue = <<>>
  /\ effects = MountEffects
  /\ storage \in StorageConditions
  /\ now = 0
  /\ filterBy = "all"
  /\ caseFirst \in CaseFirsts
  /\ loads = 0
  /\ stamp = NoStamp
  /\ last = Did("mount", Undefined, {})

NextStore ==
  \/ \E fails \in BOOLEAN : LoadEffectOn(fails)
  \/ \E fails \in BOOLEAN : SaveEffectOn(fails)
  \/ \E c \in Candidates : addToWatchlist(c)
  \/ Render
  \/ \E id \in Ids : IsInWatchlistCall(id)
  \/ GetCountCall
  \/ \E filter \in Filters : GetFilteredCall(filter)
  \/ \E filter \in Filters, sortBy \in SortBys : GetSortedCall(filter, "none", sortBy)

SpecStore == InitStore /\ [][NextStore]_vars

\* ---------------------------------------------------------------- two providers over one key
\* collections a second provider instance (another tab) can hold
OtherCollections ==
  { <<>>,
    << NewItem(EarlierCandidate.movie, EarlierCandidate.category, 0) >>,
    << NewItem([id |-> "1399", original_title |-> Undefined, name |-> "Breaking Bad",
                poster_path |-> "/bb.jpg"], "tv", 0),
       NewItem(EarlierCandidate.movie, EarlierCandidate.category, 0) >> }

\* the save effect of the second instance, holding collection c: the same
\* saveWatchlist over the same key.  Nothing in this instance listens to the
\* store, so its state is left alone.
OtherSaveEffect(c, fails) ==
  /\ storage' = saveWatchlistCall(storage, c, fails).st
  /\ last' = Did("otherSaveEffect", Undefined, [saved |-> c, failed |-> fails])
  /\ UNCHANGED <<items, queue, effects, now, filterBy, caseFirst, loads, stamp>>

NextTabs ==
  \/ LoadEffect
  \/ \E fails \in BOOLEAN : SaveEffectOn(fails)
  \/ \E c \in Candidates : addToWatchlist(c)
  \/ \E id \in Ids : removeFromWatchlist(id)
  \/ Render
  \/ \E c \in OtherCollections, fails \in BOOLEAN : OtherSaveEffect(c, fails)

SpecTabs == Init /\ [][NextTabs]_vars

\* ---------------------------------------------------------------- the storage utilities alone
\* the utilities called directly, with no provider mounted
LoadWatchlistCall(fails) ==
  /\ LET r == loadWatchlistCall(storage, fails)
     IN last' = Did("loadWatchlist", IF r.threw THEN Thrown ELSE Undefined, r)
  /\ UNCHANGED <<items, queue, effects, storage, now, filterBy, caseFirst, loads, stamp>>

SaveWatchlistCall(arr, fails) ==
  /\ LET r == saveWatchlistCall(storage, arr, fails)
     IN /\ storage' = r.st
        /\ last' = Did("saveWatchlist", IF r.threw THEN Thrown ELSE Undefined,
                       [given |-> arr, failed |-> fails])
  /\ UNCHANGED <<items, queue, effects, now, filterBy, caseFirst, loads, stamp>>

ClearWatchlistStorageCall(fails) ==
  /\ LET r == clearWatchlistStorageCall(storage, fails)
     IN /\ storage' = r.st
        /\ last' = Did("clearWatchlistStorage", IF r.threw THEN Thrown ELSE Undefined,
                       [before |-> storage, failed |-> fails])
  /\ UNCHANGED <<items, queue, effects, now, filterBy, caseFirst, loads, stamp>>

InitUtils ==
  /\ items = <<>>
  /\ queue = <<>>
  /\ effects = <<>>
  /\ storage \in StorageConditions
  /\ now = 0
  /\ filterBy = "all"
  /\ caseFirst = "lower"
  /\ loads = 0
  /\ stamp = NoStamp
  /\ last = Did("mount", Undefined, {})

NextUtils ==
  \/ \E fails \in BOOLEAN : LoadWatchlistCall(fails)
  \/ \E arr \in QueryInputs, fails \in BOOLEAN : SaveWatchlistCall(arr, fails)
  \/ \E fails \in BOOLEAN : ClearWatchlistStorageCall(fails)

SpecUtils == InitUtils /\ [][NextUtils]_vars

\* ---------------------------------------------------------------- the provider over any descriptor
\* descriptors with both title fields, with one empty, and with neither
LabelCandidates ==
  { [movie |-> [id |-> "550", original_title |-> "Fight Club", name |-> "Breaking Bad",
                poster_path |-> "/fc.jpg"], category |-> "movie"],
    [movie |-> [id |-> "1399", original_title |-> Undefined, name |-> "Breaking Bad",
                poster_path |-> "/bb.jpg"], category |-> "tv"],
    EarlierCandidate,
    [movie |-> [id |-> "603", original_title |-> "", name |-> Undefined,
                poster_path |-> "/m.jpg"], category |-> "movie"],
    [movie |-> [id |-> "1399", original_title |-> Undefined, name |-> "",
                poster_path |-> Undefined], category |-> "tv"] }

NextLabels ==
  \/ LoadEffect
  \/ SaveEffect
  \/ \E c \in LabelCandidates : addToWatchlist(c)
  \/ Render

SpecLabels == Init /\ [][NextLabels]_vars

\* ---------------------------------------------------------------- consumers of the context
\* bound on the count the badge is rendered with
MaxCount == 101

\* what useContext(WatchlistContext) returns under a WatchlistProvider: the
\* value of its last render
ContextValue == [provider |-> "WatchlistProvider", items |-> items]

\* the default of createContext(undefined), returned where no provider
\* encloses the consumer
NoContext == [provider |-> Undefined, items |-> <<>>]

useContext(inside) == IF inside THEN ContextValue ELSE NoContext

\* useWatchlist that returns whatever useContext gave it
useWatchlist_NoCheck(context) == Returned(context)

\* useWatchlist(): throws when the context is undefined
useWatchlist(context) ==
  IF context = NoContext
  THEN [threw |-> TRUE, value |-> "useWatchlist must be used within a WatchlistProvider"]
  ELSE Returned(context)

\* what the badge renders for null
Nothing == "<null>"

\* WatchlistBadgeDisplay that switches to '99+' one count early
WatchlistBadgeDisplay_From99(count) ==
  IF count = 0 THEN Nothing
  ELSE IF count >= 99 THEN "99+" ELSE ToString(count)

\* WatchlistBadge: null for 0, displayCount otherwise
WatchlistBadgeDisplay(count) ==
  IF count = 0 THEN Nothing
  ELSE IF count > 99 THEN "99+" ELSE ToString(count)

\* a component calls useWatchlist(), inside a provider or not
UseWatchlistCall(inside) ==
  /\ LET r == useWatchlist(useContext(inside))
     IN last' = Did("useWatchlist", IF r.threw THEN Thrown ELSE Undefined,
                    [inside |-> inside, threw |-> r.threw, value |-> r.value])
  /\ UNCHANGED <<items, queue, effects, storage, now, filterBy, caseFirst, loads, stamp>>

\* the WatchlistBadge renders: useWatchlist(), getCount(), the display
WatchlistBadgeRender(inside) ==
  /\ LET r == useWatchlist(useContext(inside))
     IN last' = IF r.threw
                THEN Did("WatchlistBadge", Thrown, [inside |-> inside, count |-> 0, shown |-> Nothing])
                ELSE Did("WatchlistBadge", Undefined,
                         [inside |-> inside, count |-> Len(r.value.items),
                          shown |-> WatchlistBadgeDisplay(Len(r.value.items))])
  /\ UNCHANGED <<items, queue, effects, storage, now, filterBy, caseFirst, loads, stamp>>

\* a collection of n items
CollectionOf(n) ==
  [i \in 1..n |-> [id |-> ToString(i), type |-> "movie", title |-> "apple",
                   poster_path |-> Undefined, addedAt |-> 0]]

InitConsumers ==
  /\ items \in { CollectionOf(n) : n \in 0..MaxCount }
  /\ queue = <<>>
  /\ effects = <<>>
  /\ storage = saveWatchlist(NoEntry, items)
  /\ now = 0
  /\ filterBy = "all"
  /\ caseFirst = "lower"
  /\ loads = 1
  /\ stamp = NoStamp
  /\ last = Did("saveEffect", Undefined, {})

NextConsumers ==
  \/ \E inside \in BOOLEAN : UseWatchlistCall(inside)
  \/ \E inside \in BOOLEAN : WatchlistBadgeRender(inside)

SpecConsumers == InitConsumers /\ [][NextConsumers]_vars

\* ---------------------------------------------------------------- the toggle button
\* AddToWatchlistBtn: inWatchlist is read when the button renders
buttonText(c) ==
  IF isInWatchlist(c.movie.id) THEN "Remove from Watchlist" ELSE "Add to Watchlist"

\* handleToggleWatchlist: the click removes or adds according to the
\* inWatchlist of the render the button was drawn in
ToggleClick(c) ==
  /\ Len(queue) < MaxQueue
  /\ queue' = Append(queue, IF isInWatchlist(c.movie.id)
                            THEN RemoveUpdate(c.movie.id)
                            ELSE AddUpdate(c, now))
  /\ last' = Did("toggle", c.movie.id, {buttonText(c)})
  /\ UNCHANGED <<items, effects, storage, now, filterBy, caseFirst, loads, stamp>>

NextToggle ==
  \/ LoadEffect
  \/ SaveEffect
  \/ \E c \in Candidates \cup {EarlierCandidate} : ToggleClick(c)
  \/ Render
  \/ Reload

SpecToggle == Init /\ [][NextToggle]_vars

\* ---------------------------------------------------------------- the Watchlist page
\* Watchlist: const filteredItems = items.filter(...) over the rendered items
filteredItems ==
  IF filterBy = "all" THEN items
  ELSE SelectItems(items, { it \in ItemsOf(items) : it.type = filterBy })

\* sortedItems is a sorted copy of filteredItems: the same items
sortedItemsLength == Len(filteredItems)

\* the page draws the grid when sortedItems.length > 0 and the message 'Your
\* watchlist is empty' otherwise
EmptyStateShown == sortedItemsLength = 0

\* the filter and sort selects (and Clear All) are drawn when
\* sortedItems.length > 0
ControlsShown == sortedItemsLength > 0

\* onChange of the filter select: setFilterBy(e.target.value)
setFilterBy(filter) ==
  /\ ControlsShown
  /\ filterBy' = filter
  /\ last' = Did("setFilterBy", filter, {})
  /\ UNCHANGED <<items, queue, effects, storage, now, caseFirst, loads, stamp>>

\* the remove button of a card of the grid: handleRemove(item.id)
handleRemove(id) ==
  /\ id \in IdsOf(filteredItems)
  /\ removeFromWatchlist(id)

NextPage ==
  \/ LoadEffect
  \/ SaveEffect
  \/ \E c \in Candidates : addToWatchlist(c)
  \/ \E id \in Ids : handleRemove(id)
  \/ \E filter \in Filters : setFilterBy(filter)
  \/ Render

SpecPage == Init /\ [][NextPage]_vars

\* ---------------------------------------------------------------- a watchlist grown from an empty store
\* nothing has been saved yet: the first lifetime of the provider
InitOrder ==
  /\ items = <<>>
  /\ queue = <<>>
  /\ effects = MountEffects
  /\ storage = NoEntry
  /\ now = 0
  /\ filterBy = "all"
  /\ caseFirst = "lower"
  /\ loads = 0
  /\ stamp = NoStamp
  /\ last = Did("mount", Undefined, {})

\* adds and removes, the clock moving forward, and reloads that hydrate from
\* what was saved
NextOrder ==
  \/ LoadEffect
  \/ SaveEffect
  \/ \E c \in Candidates \cup {EarlierCandidate} : addToWatchlist(c)
  \/ \E id \in Ids : removeFromWatchlist(id)
  \/ Render
  \/ Tick
  \/ Reload

SpecOrder == InitOrder /\ [][NextOrder]_vars

\* ---------------------------------------------------------------- a provider over a corrupt entry
\* the entry under WATCHLIST_KEY holds a text that is not JSON
InitHeal ==
  /\ items = <<>>
  /\ queue = <<>>
  /\ effects = MountEffects
  /\ storage = Entry(GarbageText)
  /\ now = 0
  /\ filterBy = "all"
  /\ caseFirst = "lower"
  /\ loads = 0
  /\ stamp = NoStamp
  /\ last = Did("mount", Undefined, {})

\* one lifetime of the provider over a store whose writes succeed
NextHeal ==
  \/ LoadEffect
  \/ SaveEffect
  \/ \E c \in Candidates : addToWatchlist(c)
  \/ \E id \in Ids : removeFromWatchlist(id)
  \/ Render

\* React runs a pending effect and a pending re-render; calls of the user
\* may or may not come
SpecHeal ==
  /\ InitHeal /\ [][NextHeal]_vars
  /\ WF_vars(LoadEffect) /\ WF_vars(SaveEffect) /\ WF_vars(Render)

\* ---------------------------------------------------------------- shared by the properties
\* the collection the re-render has computed just before it applies queue[k]
\* (k = Len(queue) + 1: the collection it commits)
Before(k) ==
  ProcessQueue(SubSeq(queue, 1, k - 1), RenderStart, stamp, now).items

\* a later queued update replaces the collection or names the same id
Overridden(k) ==
  \E j \in (k + 1)..Len(queue) : queue[j].op = "set" \/ queue[j].id = queue[k].id

MutatorCall ==
  \/ \E c \in Candidates : addToWatchlist(c)
  \/ \E id \in Ids : removeFromWatchlist(id)

CountOf(s, id) == Cardinality({ i \in 1..Len(s) : s[i].id = id })

ItemOf(s, id) == CHOOSE it \in ItemsOf(s) : it.id = id

\* ---------------------------------------------------------------- C1
\* C1 (as stated): when addToWatchlist of an id not in the collection, or
\* removeFromWatchlist of an id in it, returns, isInWatchlist and getCount read
\* right then already reflect the call.
C1_ReadAfterCall ==
  [][ /\ \A c \in Candidates :
           (addToWatchlist(c) /\ ~isInWatchlist(c.movie.id))
             => (isInWatchlist(c.movie.id)' /\ getCount' = getCount + 1)
      /\ \A id \in Ids :
           (removeFromWatchlist(id) /\ isInWatchlist(id))
             => (~isInWatchlist(id)' /\ getCount' = getCount - 1) ]_vars

\* C1 (amended): a mutating call leaves what the reads return unchanged until
\* the provider re-renders; the re-render makes every queued call visible to
\* isInWatchlist and getFiltered, unless a later queued update names the same
\* id or replaces the collection.
C1_ReadAfterRender ==
  [][ /\ MutatorCall => (items' = items /\ getCount' = getCount)
      /\ Render =>
           \A k \in 1..Len(queue) : \A id \in {queue[k].id} :
             ~Overridden(k) =>
               /\ queue[k].op = "add" =>
                    (isInWatchlist(id)' /\ id \in IdsOf(getFiltered("all")'))
               /\ queue[k].op = "remove" =>
                    (~isInWatchlist(id)' /\ id \notin IdsOf(getFiltered("all")')) ]_vars

\* a re-render has applied an add of an id no stored snapshot holds, then a
\* call was made that the reads do not show yet
C1_Witness ==
  /\ isInWatchlist("1399")
  /\ last.op = "removeFromWatchlist" /\ last.id = "1399"
  /\ queue = <<RemoveUpdate("1399")>>

C3_FirstCallTime ==
  [][ Render =>
        \A k \in 1..Len(queue) :
          (queue[k].op = "add" /\ ~Overridden(k)) =>
            /\ CountOf(items', queue[k].id) = 1
            /\ queue[k].id \in IdsOf(Before(k)) =>
                 ItemOf(items', queue[k].id) = ItemOf(Before(k), queue[k].id)
            /\ queue[k].id \notin IdsOf(Before(k)) =>
                 AddedAtOf(items', queue[k].id) = queue[k].called ]_vars

\* C3 (amended): an add of an id that is present leaves the one item with that
\* id, its addedAt and getCount as they were; the item an add inserts has
\* addedAt equal to the clock value read when its updater ran, at the
\* re-render that applied the call.
C3_IdempotentAdd ==
  [][ Render =>
        \A k \in 1..Len(queue) :
          queue[k].op = "add" =>
            /\ CountOf(Before(k + 1), queue[k].id) = 1
            /\ queue[k].id \in IdsOf(Before(k)) =>
                 /\ Before(k + 1) = Before(k)
                 /\ ~Overridden(k) =>
                      ItemOf(items', queue[k].id) = ItemOf(Before(k), queue[k].id)
            /\ (queue[k].id \notin IdsOf(Before(k)) /\ ~Overridden(k)) =>
                 AddedAtOf(items', queue[k].id) = now ]_vars

\* a re-render applied nothing but adds of the one id present, after the clock
\* had moved past that item's addedAt
C3_Witness ==
  /\ last.op = "render" /\ last.did = {"readd"}
  /\ Len(items) = 1 /\ items[1].addedAt < now

\* ---------------------------------------------------------------- C4
\* C4: an add of an id not in the collection puts the new item at index 0 with
\* addedAt equal to the current time and leaves the previous collection, in
\* its order, after it.
C4_InsertAtFront ==
  [][ Render =>
        \A k \in 1..Len(queue) :
          (queue[k].op = "add" /\ queue[k].id \notin IdsOf(Before(k))) =>
            /\ Before(k + 1)[1].id = queue[k].id
            /\ Before(k + 1)[1].addedAt = now
            /\ Tail(Before(k + 1)) = Before(k)
            /\ k = Len(queue) => items' = Before(k + 1) ]_vars

\* an add was applied to a collection of two and its item leads the three
C4_Witness ==
  /\ last.op = "render" /\ last.did = {"insert"}
  /\ Len(items) = 3 /\ items[1].id = "1399" /\ items[1].addedAt = 1
  /\ items[2].addedAt = 0

\* ---------------------------------------------------------------- C5
\* C5: while an id stays in the collection, through re-adds, removes of other
\* ids, saves and re-hydration after a reload, its item keeps the addedAt it
\* was given when the id entered.
C5_AddedAtImmutable ==
  \A i \in 1..Len(items) : items[i].addedAt = stamp[items[i].id]

\* hydration after a reload brought back an item added in the earlier lifetime
C5_Witness ==
  /\ last.op = "render" /\ "rehydrate" \in last.did
  /\ isInWatchlist("1399") /\ stamp["1399"] = 0 /\ now = 1

\* ---------------------------------------------------------------- C6
\* C6: a remove of an id in the collection takes out exactly that item: the id
\* is no longer in the collection, the count is one less, and the other items
\* are unchanged and in the same order.
C6_RemovePresent ==
  [][ Render =>
        \A k \in 1..Len(queue) :
          (queue[k].op = "remove" /\ queue[k].id \in IdsOf(Before(k))) =>
            /\ \E i \in 1..Len(Before(k)) :
                 /\ Before(k)[i].id = queue[k].id
                 /\ Before(k + 1) = SubSeq(Before(k), 1, i - 1)
                                      \o SubSeq(Before(k), i + 1, Len(Before(k)))
            /\ queue[k].id \notin IdsOf(Before(k + 1))
            /\ Len(Before(k + 1)) = Len(Before(k)) - 1
            /\ k = Len(queue) => (items' = Before(k + 1) /\ Len(items') = Len(Before(k)) - 1) ]_vars

\* the middle one of three items was removed
C6_Witness ==
  /\ last.op = "render" /\ last.did = {"remove"}
  /\ Len(items) = 2 /\ items[1].id = "1399" /\ items[2].id = "550"

\* ---------------------------------------------------------------- C7
\* C7: a remove of an id not in the collection leaves the contents and order
\* of the collection, and so getCount, unchanged, however often it is repeated.
C7_RemoveAbsent ==
  [][ Render =>
        /\ \A k \in 1..Len(queue) :
             (queue[k].op = "remove" /\ queue[k].id \notin IdsOf(Before(k))) =>
               Before(k + 1) = Before(k)
        /\ (\A k \in 1..Len(queue) : queue[k].op = "remove" /\ ~isInWatchlist(queue[k].id)) =>
             (items' = items /\ getCount' = getCount) ]_vars

\* two removes of an absent id were applied to a collection of two
C7_Witness ==
  /\ last.op = "render" /\ last.did = {"removeAbsent"}
  /\ Len(items) = 2 /\ ~isInWatchlist("1399")

\* ---------------------------------------------------------------- C8
\* C8: once Clear All has been confirmed, applied and saved, the in-memory
\* collection is empty and no entry exists under WATCHLIST_KEY.
C8_ClearAllErases ==
  (last.op = "saveEffect" /\ last.id = "clearAll") =>
    (items = <<>> /\ ~storage.present)

\* ---------------------------------------------------------------- C9
\* C9: whenever no state update and no effect is pending, the entry under
\* WATCHLIST_KEY is the serialization of the in-memory collection, and loads
\* back as the same items, fields and order.
C9_PersistedInSync ==
  Quiescent => (storage = Entry(JSONstringify(items)) /\ loadWatchlist(storage) = items)

\* an add that made the collection three items long has been saved
C9_Witness ==
  /\ Quiescent /\ last.op = "saveEffect"
  /\ Len(items) = 3 /\ items[1].addedAt = 1

\* ---------------------------------------------------------------- C10
\* C10: loadWatchlist() after saveWatchlist(c), with no write in between,
\* returns the ids, fields and order of c, for every collection c the provider
\* holds.
C10_RoundTrip ==
  loadWatchlist(saveWatchlist(storage, items)) = items

\* the load effect of a new lifetime has read back a saved collection of three
\* items, one of them without poster_path and one added in the earlier lifetime
C10_Witness ==
  /\ last.op = "loadEffect"
  /\ Len(queue[Len(queue)].saved) = 3
  /\ queue[Len(queue)].saved[1].addedAt = 1
  /\ storage = saveWatchlist(storage, queue[Len(queue)].saved)

\* ---------------------------------------------------------------- C11
AnyLoadEffect == \E fails \in BOOLEAN : LoadEffectOn(fails)

Unparseable(st) == st.present /\ JSONparse(st.text).threw

\* C11: when the entry under WATCHLIST_KEY is absent or holds a text that
\* cannot be parsed, loadWatchlist() returns the empty collection and raises
\* no exception: the load effect hands [] to setItems and nothing is thrown
C11_CorruptionRecovery ==
  [][ AnyLoadEffect /\ (~storage.present \/ Unparseable(storage))
        => /\ loadWatchlistCall(storage, FALSE) = Returned(<<>>)
           /\ last'.id # Thrown
           /\ queue' = Append(queue, SetUpdate(<<>>)) ]_vars

\* the load effect has run over a text that is not JSON
C11_Witness ==
  /\ last.op = "loadEffect"
  /\ storage = Entry(GarbageText)
  /\ queue = <<SetUpdate(<<>>)>>

\* ---------------------------------------------------------------- C12
\* the shape of a WatchlistItem: id, type, title and addedAt are there
HasShape(it) ==
  /\ it.id # Undefined
  /\ it.type \in {"movie", "tv"}
  /\ it.title # Undefined
  /\ it.addedAt # None

WrongShape(st) ==
  /\ st.present
  /\ ~JSONparse(st.text).threw
  /\ \E it \in ItemsOf(JSONparse(st.text).value) : ~HasShape(it)

\* C12: when the stored text parses but its value has the wrong shape (here
\* a list whose elements lack id, type, title or addedAt), loadWatchlist()
\* returns the empty collection
C12_ShapeValidated ==
  [][ AnyLoadEffect /\ WrongShape(storage)
        => queue' = Append(queue, SetUpdate(<<>>)) ]_vars

\* ---------------------------------------------------------------- C13
\* C13: when the storage write throws inside saveWatchlist, no exception
\* leaves the save effect, the in-memory collection is unchanged and the
\* entry under WATCHLIST_KEY is left as it was
C13_SaveFailureNonFatal ==
  [][ SaveEffectOn(TRUE)
        => /\ last'.id # Thrown
           /\ items' = items
           /\ storage' = storage ]_vars

\* a save of a non-empty collection has failed and the entry still holds the
\* older snapshot
C13_Witness ==
  /\ last.op = "saveEffect"
  /\ "failed" \in last.did
  /\ items # <<>>
  /\ storage # Entry(JSONstringify(items))

\* ---------------------------------------------------------------- C14
\* C14: whatever the storage holds (nothing, a backend that throws, a text
\* that does not parse, a text of the wrong shape) and whatever add, contains,
\* count, filtered and sorted calls follow, no operation raises
C14_NoOperationRaises ==
  /\ last.id # Thrown
  /\ last.op \in ReadOps => ~last.did.threw

\* ---------------------------------------------------------------- C15
\* C15: hydration happens exactly once per provider lifetime.  The collection
\* is empty at construction; the load effect is pending from construction
\* until it has run and never again; it calls loadWatchlist once and hands the
\* result to setItems; every re-render comes after it and makes a queued
\* result the collection; no other operation calls loadWatchlist.
C15_HydratesOnce ==
  /\ [](last.op = "mount" => items = <<>> /\ loads = 0)
  /\ [](loads <= 1)
  /\ []((\E i \in 1..Len(effects) : effects[i] = "load") <=> loads = 0)
  /\ [][ /\ LoadEffect => /\ loads = 0 /\ loads' = 1
                          /\ queue' = Append(queue, SetUpdate(loadWatchlist(storage)))
         /\ Render => /\ loads = 1
                      /\ \A k \in 1..Len(queue) :
                           queue[k].op = "set" => Before(k + 1) = queue[k].saved
         /\ loads' # loads => LoadEffect \/ Reload ]_vars

\* the stored snapshot has been loaded once and is the collection, and the
\* provider has gone on to commit a later mutation
C15_Witness ==
  /\ loads = 1
  /\ last.op = "render"
  /\ "hydrate" \notin last.did
  /\ \E s \in StoredSnapshots : ItemsOf(s) \subseteq ItemsOf(items)
  /\ Len(items) = 3

\* ---------------------------------------------------------------- C16
\* C16: isInWatchlist, getCount, getFiltered and getSorted leave the
\* in-memory collection, the sequence passed in and the stored entry as they
\* were, and what they return is determined by the collection and the
\* arguments, whatever the stored entry holds
C16_ReadsPure ==
  [][ last'.op \in ReadOps =>
        /\ items' = items
        /\ storage' = storage
        /\ queue' = queue
        /\ last'.op = "isInWatchlist" => last'.did.value = (last'.id \in IdsOf(items))
        /\ last'.op = "getCount" => last'.did.value = Len(items)
        /\ last'.op = "getFiltered" => ItemsOf(last'.did.value) \subseteq ItemsOf(items)
        /\ last'.op = "getSorted" => /\ last'.did.input = last'.did.given
                                     /\ ItemsOf(last'.did.given) \subseteq ItemsOf(items)
                                     /\ ItemsOf(last'.did.value) = ItemsOf(last'.did.given) ]_vars

\* getSorted was handed the `items` array itself and returned another order,
\* over a stored entry that does not hold the collection
C16_Witness ==
  /\ last.op = "getSorted"
  /\ last.did.given = items
  /\ last.did.value # items
  /\ storage = NoEntry

\* ---------------------------------------------------------------- C17
PositionOf(s, it) == CHOOSE i \in 1..Len(s) : s[i] = it

\* a sequence of items of `s`, each at most once, in the order of `s`
InOrderOf(r, s) ==
  /\ ItemsOf(r) \subseteq ItemsOf(s)
  /\ \A i, j \in 1..Len(r) : i < j => PositionOf(s, r[i]) < PositionOf(s, r[j])

\* C17: getFiltered('movie') and getFiltered('tv') return exactly the items
\* of that type, each once, in their order in the collection;
\* getFiltered('all') returns the whole collection in order
C17_FilterCorrect ==
  last.op = "getFiltered" =>
    LET r == last.did.value
    IN IF last.id = "all" THEN r = items
       ELSE /\ InOrderOf(r, items)
            /\ ItemsOf(r) = { it \in ItemsOf(items) : it.type = last.id }

\* a filter that kept two items and dropped one between them
C17_Witness ==
  /\ last.op = "getFiltered"
  /\ last.id = "tv"
  /\ Len(items) = 3
  /\ Len(last.did.value) = 2
  /\ items[2].type = "movie"

\* ---------------------------------------------------------------- C18
IsPermutation(r, s) ==
  /\ Len(r) = Len(s)
  /\ \A it \in ItemsOf(s) \cup ItemsOf(r) :
       Cardinality({ i \in 1..Len(r) : r[i] = it }) = Cardinality({ i \in 1..Len(s) : s[i] = it })

\* C18: getSorted(items, 'date-new') returns a permutation of its input in
\* non-increasing addedAt, getSorted(items, 'date-old') one in non-decreasing
\* addedAt, and items with the same addedAt keep their input order
C18_DateSort ==
  last.op = "getSorted" /\ last.id \in {"date-new", "date-old"} =>
    LET in == last.did.given
        out == last.did.value
    IN /\ ~last.did.threw
       /\ IsPermutation(out, in)
       /\ \A i, j \in 1..Len(out) :
            i < j => /\ last.id = "date-new" => out[i].addedAt >= out[j].addedAt
                     /\ last.id = "date-old" => out[i].addedAt <= out[j].addedAt
                     /\ out[i].addedAt = out[j].addedAt
                          => PositionOf(in, out[i]) < PositionOf(in, out[j])

\* a date sort that had to move an item across two items of equal addedAt
C18_Witness ==
  /\ last.op = "getSorted"
  /\ last.id = "date-old"
  /\ Len(last.did.given) = 3
  /\ last.did.value # last.did.given
  /\ last.did.value[1].addedAt = last.did.value[2].addedAt
  /\ last.did.value[1].title # last.did.value[2].title

\* ---------------------------------------------------------------- C19
SameLetters(a, b) == Spelling(a).base = Spelling(b).base

\* C19: getSorted(items, 'title') returns a permutation of its input in
\* ascending order of title under a case-insensitive lexicographic
\* comparison, and items whose titles are equal once case is normalized
\* ('apple', 'Apple') keep their input order
C19_TitleSortIgnoringCase ==
  last.op = "getSorted" /\ last.id = "title" =>
    LET in == last.did.given
        out == last.did.value
    IN /\ ~last.did.threw
       /\ IsPermutation(out, in)
       /\ \A i, j \in 1..Len(out) :
            i < j => /\ CompareKeys(Spelling(out[i].title).base, Spelling(out[j].title).base) <= 0
                     /\ SameLetters(out[i].title, out[j].title)
                          => PositionOf(in, out[i]) < PositionOf(in, out[j])

\* C19 (amended): getSorted(items, 'title') returns a permutation of its
\* input in ascending order of localeCompare under the host's collation: the
\* letters are compared first, without regard to case; titles that differ
\* only in case are ordered by the collation's case rule, whatever their
\* input order; items with the same title keep their input order
C19_TitleSortByCollation ==
  last.op = "getSorted" /\ last.id = "title" =>
    LET in == last.did.given
        out == last.did.value
    IN /\ ~last.did.threw
       /\ IsPermutation(out, in)
       /\ \A i, j \in 1..Len(out) :
            i < j => /\ CompareKeys(Spelling(out[i].title).base, Spelling(out[j].title).base) <= 0
                     /\ SameLetters(out[i].title, out[j].title) /\ out[i].title # out[j].title
                          => IF caseFirst = "lower"
                             THEN CompareKeys(Spelling(out[i].title).caps,
                                              Spelling(out[j].title).caps) < 0
                             ELSE CompareKeys(Spelling(out[i].title).caps,
                                              Spelling(out[j].title).caps) > 0
                     /\ out[i].title = out[j].title
                          => PositionOf(in, out[i]) < PositionOf(in, out[j])

\* 'Apple' was handed in before 'apple' and came out behind it, with a third
\* item of the title 'apple' kept behind the first
C19_Witness ==
  /\ last.op = "getSorted"
  /\ last.id = "title"
  /\ Len(last.did.given) = 3
  /\ last.did.given[2].title = "Apple"
  /\ last.did.given[3].title = "apple"
  /\ last.did.value = <<last.did.given[1], last.did.given[3], last.did.given[2]>>
  /\ last.did.given[1].title = "apple"

\* ---------------------------------------------------------------- C20
\* C20: two provider instances over the same key do not merge and do not
\* notice each other.  A successful save of either writes exactly the saving
\* instance's whole collection, so what only the other had saved is gone; a
\* save of the other instance leaves this one's state alone; and nothing but
\* a successful save changes the entry, so the entry always holds the
\* collection of the most recent successful save.
C20_LastWriterWins ==
  [][ /\ SaveEffectOn(FALSE)
           => /\ storage' = Entry(JSONstringify(items))
              /\ IdsOf(loadWatchlist(storage')) = IdsOf(items)
      /\ \A c \in OtherCollections :
           OtherSaveEffect(c, FALSE)
             => /\ storage' = Entry(JSONstringify(c))
                /\ IdsOf(loadWatchlist(storage')) = IdsOf(c)
                /\ items' = items /\ queue' = queue /\ effects' = effects
      /\ storage' # storage
           => SaveEffectOn(FALSE) \/ \E c \in OtherCollections : OtherSaveEffect(c, FALSE) ]_vars

\* this instance has saved its collection, and the other instance's save has
\* then replaced it with a collection that holds none of its items
C20_Witness ==
  /\ last.op = "otherSaveEffect"
  /\ ~last.did.failed
  /\ loads = 1 /\ queue = <<>> /\ effects = <<>>
  /\ items # <<>>
  /\ last.did.saved # <<>>
  /\ IdsOf(items) \cap IdsOf(last.did.saved) = {}
  /\ storage = Entry(JSONstringify(last.did.saved))

\* ---------------------------------------------------------------- C21
\* C21: clearWatchlistStorage() removes the entry under WATCHLIST_KEY, so
\* that a following loadWatchlist() returns the empty collection; called when
\* there is no entry it raises nothing and changes nothing, and a second call
\* changes nothing more
C21_StoreClear ==
  [][ ClearWatchlistStorageCall(FALSE)
        => /\ last'.id # Thrown
           /\ storage' = NoEntry
           /\ loadWatchlistCall(storage', FALSE) = Returned(<<>>)
           /\ ~storage.present => storage' = storage
           /\ clearWatchlistStorageCall(storage', FALSE).st = storage' ]_vars

\* an entry that held a non-empty collection has been removed
C21_Witness ==
  /\ last.op = "clearWatchlistStorage"
  /\ ~last.did.failed
  /\ last.did.before.present
  /\ loadWatchlist(last.did.before) # <<>>
  /\ storage = NoEntry

\* ---------------------------------------------------------------- C22
\* a title field that holds a text (neither absent nor the empty string)
Present(x) == x # Undefined /\ x # ""

\* C22: the item addToWatchlist(movie, type) builds has id = movie.id, type =
\* the given type, poster_path = movie.poster_path, and as title
\* movie.original_title when that field holds a text, otherwise movie.name
C22_LabelResolution ==
  [][ Render =>
        \A k \in 1..Len(queue) :
          (queue[k].op = "add" /\ queue[k].id \notin IdsOf(Before(k))) =>
            LET built == Before(k + 1)[1]
                movie == queue[k].movie
            IN /\ built.id = movie.id
               /\ built.type = queue[k].type
               /\ built.poster_path = movie.poster_path
               /\ Present(movie.original_title) => built.title = movie.original_title
               /\ ~Present(movie.original_title) => built.title = movie.name
               /\ ~Overridden(k) => built \in ItemsOf(items') ]_vars

\* the collection holds an item built from a descriptor with both title
\* fields and one built from a descriptor whose original title is empty
C22_Witness ==
  /\ last.op = "render"
  /\ \E i, j \in 1..Len(items) :
       /\ items[i].id = "550" /\ items[i].title = "Fight Club"
       /\ items[j].id = "603" /\ items[j].title = "apple" /\ items[j].addedAt = now

\* ---------------------------------------------------------------- C23
\* C23: in every reachable state every item of the collection and of the
\* stored snapshot has a title that is a non-empty string, whatever
\* descriptor was passed to addToWatchlist
C23_NonEmptyTitle ==
  /\ \A i \in 1..Len(items) : Present(items[i].title)
  /\ \A it \in ItemsOf(loadWatchlist(storage)) : Present(it.title)

\* ---------------------------------------------------------------- C24
\* C24: useWatchlist() with no enclosing WatchlistProvider raises the error
\* 'useWatchlist must be used within a WatchlistProvider'; inside a provider
\* it returns that provider's context value and raises nothing
C24_ProviderRequired ==
  last.op = "useWatchlist" =>
    IF last.did.inside
    THEN ~last.did.threw /\ last.did.value = ContextValue
    ELSE /\ last.did.threw
         /\ last.did.value = "useWatchlist must be used within a WatchlistProvider"

\* the hook has been called outside a provider, while a provider with a
\* non-empty collection exists elsewhere
C24_Witness ==
  /\ last.op = "useWatchlist"
  /\ ~last.did.inside
  /\ last.id = Thrown
  /\ items # <<>>

C26_ToggleFlips ==
  /\ [](last.op = "toggle" =>
          (last.did = {"Remove from Watchlist"} <=> last.id \in IdsOf(items))
          /\ (last.did = {"Add to Watchlist"} <=> last.id \notin IdsOf(items)))
  /\ [][ Render =>
           \A k \in 1..Len(queue) :
             (/\ queue[k].op # "set"
              /\ \A j \in 1..Len(queue) : j # k => queue[j].id # queue[k].id)
               => /\ (queue[k].id \in IdsOf(items')) # (queue[k].id \in IdsOf(items))
                  /\ (\A j \in 1..Len(queue) : queue[j].op # "set")
                       => \A it \in ItemsOf(items) \cup ItemsOf(items') :
                            (\A j \in 1..Len(queue) : queue[j].id # it.id)
                              => it \in ItemsOf(items) \cap ItemsOf(items') ]_vars

\* ---------------------------------------------------------------- C27
\* C27: in every state of the Watchlist page, whatever the collection and the
\* selected filter, the empty-state message is displayed exactly when the
\* collection itself is empty
C27_EmptyStateWhenEmpty == EmptyStateShown <=> items = <<>>

\* ---------------------------------------------------------------- C28
\* the hydration update setItems(saved) has not been applied yet
HydrationPending == loads = 0 \/ \E k \in 1..Len(queue) : queue[k].op = "set"

SnapshotEntries == { Entry(JSONstringify(s)) : s \in StoredSnapshots }

\* C28: when the provider is constructed over a store that holds a non-empty
\* snapshot S, the stored snapshot is still S at every point until the
\* hydration has been applied (the empty initial collection is never written
\* over it), and the hydration makes S the collection
C28_HydrationKeepsSnapshot ==
  [][ /\ (HydrationPending /\ storage \in SnapshotEntries) => storage' = storage
      /\ (Render /\ Len(queue) = 1 /\ queue[1].op = "set") => items' = queue[1].saved ]_vars

\* ---------------------------------------------------------------- C29
MutatorsOf(q) == SelectSeq(q, LAMBDA u : u.op # "set")

\* the mutations of the queue applied in order to the collection s
AppliedTo(s, q) ==
  ProcessQueue(q, [items |-> s, changed |-> FALSE, did |-> {}, stamp |-> stamp], stamp, now).items

\* C29: an addToWatchlist or removeFromWatchlist call issued after
\* construction and before the hydration update has been applied still takes
\* effect: the collection after the hydrating re-render is the loaded
\* snapshot with those mutations applied
C29_MutationSurvivesHydration ==
  [][ Render =>
        \A k \in 1..Len(queue) :
          queue[k].op = "set" => items' = AppliedTo(queue[k].saved, MutatorsOf(queue)) ]_vars

\* ---------------------------------------------------------------- C30
CallsOn(id) == { k \in 1..Len(queue) : queue[k].id = id }

LastCallOn(id) == CHOOSE k \in CallsOn(id) : \A j \in CallsOn(id) : j <= k

C31_CanonicalOrder ==
  /\ \A i, j \in 1..Len(items) : i < j => items[i].addedAt >= items[j].addedAt
  /\ getSorted(items, "date-new") = items

\* three items, the two newest added at the same clock value after the
\* oldest, in a lifetime that has hydrated from what an earlier one saved
C31_Witness ==
  /\ Len(items) = 3
  /\ items[1].addedAt = items[2].addedAt
  /\ items[3].addedAt < items[2].addedAt
  /\ loads = 1
  /\ storage # NoEntry
  /\ loadWatchlist(storage) = items

\* ---------------------------------------------------------------- C32
\* C32: a provider constructed over an entry that cannot be parsed, with
\* writes that succeed, replaces the entry: the mount's save effect writes the
\* serialization of the empty collection, and whenever nothing is pending the
\* entry is the serialization of the collection, so that loadWatchlist()
\* parses it
C32_SelfHeals ==
  /\ (Unparseable(storage) /\ last.op = "mount")
        ~> (storage = Entry(JSONstringify(<<>>)) /\ items = <<>>)
  /\ [](Unparseable(storage) => effects # <<>>)
  /\ [](Quiescent => /\ ~JSONparse(storage.text).threw
                     /\ loadWatchlistCall(storage, FALSE) = Returned(items))

\* construction over the corrupt entry has quiesced without a call of the
\* user: the hydration with [] has been rendered and saved
C32_Witness ==
  /\ Quiescent
  /\ last.op = "saveEffect"
  /\ loads = 1
  /\ items = <<>>
  /\ stamp = NoStamp
  /\ storage = Entry(JSONstringify(<<>>))

\* ---------------------------------------------------------------- C33
\* C33: in every reachable state getFiltered('movie') and getFiltered('tv')
\* have no item in common, every item of the collection is in exactly one of
\* them, and their lengths add up to getCount(), which is the length of
\* getFiltered('all')
C33_KindPartition ==
  LET movies == getFiltered("movie")
      shows == getFiltered("tv")
  IN /\ ItemsOf(movies) \cap ItemsOf(shows) = {}
     /\ \A i \in 1..Len(items) :
          (items[i] \in ItemsOf(movies)) # (items[i] \in ItemsOf(shows))
     /\ Len(movies) + Len(shows) = getCount
     /\ getCount = Len(getFiltered("all"))

\* ---------------------------------------------------------------- C34
\* C34: in every state of the Watchlist page in which the collection is not
\* empty, the filter and sort selects and the Clear All button are drawn, so
\* that the filter can be set back to the view that lists every saved item
C34_ControlsAvailable == items # <<>> => ControlsShown

====
